---- MODULE Spec2Model ----
(***************************************************************************)
(* RelPath Snippet Helper (src/src/extension.ts): the header-comment       *)
(* synchronizer, the comment-syntax resolver and the command / event       *)
(* handlers around them.                                                   *)
(*                                                                         *)
(* A string is a sequence of one-character strings.  A document is the     *)
(* host's TextDocument: its text, its end-of-line style, its languageId     *)
(* and its file name.  The regular expression built by headerRegex is       *)
(* compiled from the pattern's characters and run by a backtracking        *)
(* matcher, so that escaping, greediness and the anchor behave as they do   *)
(* in the JavaScript engine.                                               *)
(*                                                                         *)
(* extension.ts holds two copies of the extension; the later one (lines    *)
(* 139-324) supersedes the earlier one (lines 1-137) and is the one        *)
(* modelled, together with the relpath.insert command that only the        *)
(* earlier copy registers (lines 5-12).                                    *)
(***************************************************************************)
EXTENDS Integers, Sequences, FiniteSets, TLC

VARIABLES
  text,          \* text[d]: the text of document d (a string)
  version,       \* version[d]: the host's version counter of document d
  changedBy,     \* changedBy[d]: the handlers whose edits have changed d
  activeEditor,  \* vscode.window.activeTextEditor: a document, or NoEditor
  pending,       \* edits handed to editor.edit and not yet applied by the host
  lastOp,        \* the handler that ran last, with what it saw and did
  env,           \* languageId, eol and fileName per document; workspace; configuration
  resolved       \* the resolver runs of SpecResolver: identifier and result

vars == <<text, version, changedBy, activeEditor, pending, lastOp, env, resolved>>

(***************************************************************************)
(* Characters and JavaScript values                                        *)
(***************************************************************************)
CR == "\r"
LF == "\n"
BS == "\\"

\* what \s and String.prototype.trim treat as white space (of the characters used)
WhiteSpace == {" ", "\t", CR, LF}

\* what . does not match
LineTerminators == {CR, LF}

\* JavaScript's undefined, and a function object (Object.prototype's members):
\* neither is a string, i.e. neither is a sequence of one-character strings
Undefined == <<"<undefined>">>
NativeFunction == <<"<function>">>

IsString(v) == v # Undefined /\ v # NativeFunction

\* JavaScript truthiness of a string-or-undefined-or-function value
Truthy(v) == v # Undefined /\ v # <<>>

RECURSIVE TrimStart(_)
TrimStart(s) ==
  IF s # <<>> /\ Head(s) \in WhiteSpace THEN TrimStart(Tail(s)) ELSE s

RECURSIVE TrimEnd(_)
TrimEnd(s) ==
  IF s # <<>> /\ s[Len(s)] \in WhiteSpace THEN TrimEnd(SubSeq(s, 1, Len(s) - 1)) ELSE s

\* String.prototype.trim
Trim(s) == TrimEnd(TrimStart(s))

\* String.prototype.startsWith
StartsWith(s, p) == Len(s) >= Len(p) /\ SubSeq(s, 1, Len(p)) = p

RECURSIVE Concat(_)
Concat(ss) == IF ss = <<>> THEN <<>> ELSE Head(ss) \o Concat(Tail(ss))

(***************************************************************************)
(* Comment-syntax resolver: getCommentTokens                               *)
(***************************************************************************)
SlashSlash == <<"/", "/", " ">>
Hash == <<"#", " ">>
Semi == <<";", " ">>
DashDash == <<"-", "-", " ">>
Percent == <<"%", " ">>

lineMap ==
  [id \in {"javascript", "javascriptreact", "typescript", "typescriptreact",
           "jsonc", "java", "c", "cpp", "csharp", "go", "kotlin", "swift",
           "rust", "dart", "php", "scala", "fsharp", "zig", "verilog",
           "systemverilog"} |-> SlashSlash]
  @@ [id \in {"python", "ruby", "perl", "powershell", "shellscript", "tcl",
              "makefile", "r", "julia", "nim", "crystal", "yaml", "toml",
              "dotenv", "dockerfile", "properties"} |-> Hash]
  @@ [id \in {"ini", "clojure", "clojurescript", "lisp", "scheme"} |-> Semi]
  @@ [id \in {"haskell", "sql", "vhdl", "lua"} |-> DashDash]
  @@ [id \in {"erlang", "prolog", "matlab", "latex", "bibtex"} |-> Percent]

HtmlBlock == [start |-> <<"<", "!", "-", "-", " ">>, end |-> <<" ", "-", "-", ">">>]

blockMap ==
  [id \in {"html", "xml", "svg", "markdown", "vue", "svelte"} |-> HtmlBlock]
  @@ ("css" :> [start |-> <<"/", "*", " ">>, end |-> <<" ", "*", "/">>])
  @@ ("ocaml" :> [start |-> <<"(", "*", " ">>, end |-> <<" ", "*", ")">>])
  @@ ("pascal" :> [start |-> <<"{", " ">>, end |-> <<" ", "}">>])
  @@ ("handlebars" :> [start |-> <<"{", "{", "!", "-", "-", " ">>,
                       end |-> <<" ", "-", "-", "}", "}">>])
  @@ ("twig" :> [start |-> <<"{", "#", " ">>, end |-> <<" ", "#", "}">>])

\* The names every object literal inherits from Object.prototype: lineMap[id]
\* and blockMap[id] are plain property reads, so these names read as functions
\* (or, for __proto__, as an object), not as undefined.
ObjectPrototypeKeys ==
  {"constructor", "toString", "valueOf", "hasOwnProperty", "isPrototypeOf",
   "propertyIsEnumerable", "toLocaleString", "__proto__"}

\* lineMap[languageId]
LineMapGet(id) ==
  IF id \in DOMAIN lineMap THEN lineMap[id]
  ELSE IF id \in ObjectPrototypeKeys THEN NativeFunction
  ELSE Undefined

getCommentTokens(languageId) ==
  LET line == LineMapGet(languageId)
  IN IF Truthy(line) THEN [kind |-> "line", start |-> line]
     \* reached only when line is falsy, so languageId is no inherited name
     ELSE IF languageId \in DOMAIN blockMap
       THEN [kind |-> "block", start |-> blockMap[languageId].start,
             end |-> blockMap[languageId].end]
     ELSE [kind |-> "line", start |-> SlashSlash]

(***************************************************************************)
(* headerText                                                              *)
(***************************************************************************)
NewLine(eol) == IF eol = "CRLF" THEN <<CR, LF>> ELSE <<LF>>

\* a variant of headerText that always ends the line with a line feed
headerText_AlwaysLF(tokens, label, rel, eol) ==
  LET txt == label \o <<":", " ">> \o rel
  IN IF tokens.kind = "line"
       THEN tokens.start \o txt \o <<LF>>
       ELSE tokens.start \o txt \o tokens.end \o <<LF>>

headerText(tokens, label, rel, eol) ==
  LET nl == NewLine(eol)
      txt == label \o <<":", " ">> \o rel
  IN IF tokens.kind = "line"
       THEN tokens.start \o txt \o nl
       ELSE tokens.start \o txt \o tokens.end \o nl

(***************************************************************************)
(* reEscape, headerRegex and the regular-expression engine                 *)
(***************************************************************************)
\* the class [-\/\\^$*+?.()|[\]{}] of reEscape
EscapedChars ==
  {"-", "/", BS, "^", "$", "*", "+", "?", ".", "(", ")", "|", "[", "]", "{", "}"}

RECURSIVE reEscape(_)
reEscape(lit) ==
  IF lit = <<>> THEN <<>>
  ELSE (IF Head(lit) \in EscapedChars THEN <<BS, Head(lit)>> ELSE <<Head(lit)>>)
       \o reEscape(Tail(lit))

\* the pattern string headerRegex hands to new RegExp
headerPattern(tokens, label) ==
  LET start == tokens.start
      end == IF tokens.kind = "line" THEN <<>> ELSE tokens.end
  IN <<"^", BS, "s", "*">> \o reEscape(start) \o reEscape(label)
     \o <<":", BS, "s", "*", "(", ".", "+", ")">>
     \o (IF end # <<>> THEN reEscape(end) ELSE <<>>)
     \o <<BS, "r", "?", BS, "n", "?">>

\* A compiled pattern is a sequence of nodes: the anchor ^, the capture
\* group's parentheses, and one-character atoms (a literal, \s, or .) with a
\* greedy quantifier (none, ?, *, +).
SyntaxError == <<[t |-> "SyntaxError"]>>

Node(t) == [t |-> t, k |-> "", c |-> "", opt |-> FALSE, many |-> FALSE, q |-> FALSE]
Atom(k, c) == [t |-> "atom", k |-> k, c |-> c, opt |-> FALSE, many |-> FALSE, q |-> FALSE]

\* the atom an escape sequence \c stands for
EscapeAtom(c) ==
  CASE c = "s" -> Atom("ws", "")
    [] c = "r" -> Atom("lit", CR)
    [] c = "n" -> Atom("lit", LF)
    [] OTHER -> Atom("lit", c)

Quantified(n, c) ==
  [n EXCEPT !.q = TRUE,
            !.opt = (c \in {"?", "*"}),
            !.many = (c \in {"*", "+"})]

\* new RegExp(pattern), for the pattern syntax headerRegex can produce. A
\* quantifier with nothing to repeat, a trailing backslash and unbalanced
\* parentheses are syntax errors; a brace that starts no {n,m} is a literal.
\* Unescaped [ ] | $ and lazy quantifiers are outside the modelled syntax.
RECURSIVE Compile(_, _, _, _)
Compile(p, i, acc, depth) ==
  IF i > Len(p) THEN (IF depth = 0 THEN acc ELSE SyntaxError)
  ELSE LET c == p[i] IN
    CASE c = BS ->
           IF i = Len(p) THEN SyntaxError
           ELSE Compile(p, i + 2, Append(acc, EscapeAtom(p[i + 1])), depth)
      [] c \in {"*", "+", "?"} ->
           IF acc = <<>> \/ acc[Len(acc)].t # "atom" \/ acc[Len(acc)].q
           THEN SyntaxError
           ELSE Compile(p, i + 1,
                        [acc EXCEPT ![Len(acc)] = Quantified(acc[Len(acc)], c)], depth)
      [] c = "(" -> Compile(p, i + 1, Append(acc, Node("open")), depth + 1)
      [] c = ")" ->
           IF depth = 0 THEN SyntaxError
           ELSE Compile(p, i + 1, Append(acc, Node("close")), depth - 1)
      [] c = "^" -> Compile(p, i + 1, Append(acc, Node("bol")), depth)
      [] c = "." -> Compile(p, i + 1, Append(acc, Atom("any", "")), depth)
      [] c \in {"[", "]", "|", "$"} -> SyntaxError
      [] OTHER -> Compile(p, i + 1, Append(acc, Atom("lit", c)), depth)

RegExp(pattern) == Compile(pattern, 1, <<>>, 0)

headerRegex(tokens, label) == RegExp(headerPattern(tokens, label))

AtomMatches(n, ch) ==
  CASE n.k = "lit" -> ch = n.c
    [] n.k = "ws" -> ch \in WhiteSpace
    [] OTHER -> ch \notin LineTerminators

\* how many characters from position pos on the atom n can take, greedily
RECURSIVE Run(_, _, _, _)
Run(n, s, pos, cnt) ==
  IF (n.many \/ cnt = 0) /\ pos + cnt <= Len(s) /\ AtomMatches(n, s[pos + cnt])
  THEN Run(n, s, pos, cnt + 1)
  ELSE cnt

NoMatch == [ok |-> FALSE, end |-> 0, from |-> 0, to |-> 0]

\* Backtracking match of nodes i.. at position pos (1-based); greedy
\* quantifiers give back one character at a time. from/to delimit group 1.
RECURSIVE MatchHere(_, _, _, _, _, _)
RECURSIVE TryCounts(_, _, _, _, _, _, _)
MatchHere(re, i, s, pos, from, to) ==
  IF i > Len(re) THEN [ok |-> TRUE, end |-> pos, from |-> from, to |-> to]
  ELSE LET n == re[i] IN
    CASE n.t = "bol" -> IF pos = 1 THEN MatchHere(re, i + 1, s, pos, from, to) ELSE NoMatch
      [] n.t = "open" -> MatchHere(re, i + 1, s, pos, pos, to)
      [] n.t = "close" -> MatchHere(re, i + 1, s, pos, from, pos)
      [] OTHER -> TryCounts(re, i, s, pos, from, to, Run(n, s, pos, 0))

TryCounts(re, i, s, pos, from, to, k) ==
  IF k < (IF re[i].opt THEN 0 ELSE 1) THEN NoMatch
  ELSE LET r == MatchHere(re, i + 1, s, pos + k, from, to)
       IN IF r.ok THEN r ELSE TryCounts(re, i, s, pos, from, to, k - 1)

Null == [matched |-> FALSE, index |-> 0, m0 |-> <<>>, m1 |-> <<>>]

\* RegExp.prototype.exec without flags: the first start position that matches
RECURSIVE ExecFrom(_, _, _)
ExecFrom(re, s, start) ==
  IF start > Len(s) + 1 THEN Null
  ELSE LET r == MatchHere(re, 1, s, start, 0, 0)
       IN IF r.ok
          THEN [matched |-> TRUE, index |-> start - 1,
                m0 |-> SubSeq(s, start, r.end - 1),
                m1 |-> SubSeq(s, r.from, r.to - 1)]
          ELSE ExecFrom(re, s, start + 1)

exec(re, s) == ExecFrom(re, s, 1)

(***************************************************************************)
(* The host's TextDocument: lines, positions, offsets                      *)
(***************************************************************************)
\* the indices of the line feeds of a text
RECURSIVE LineFeeds(_, _)
LineFeeds(t, i) ==
  IF i > Len(t) THEN <<>>
  ELSE (IF t[i] = LF THEN <<i>> ELSE <<>>) \o LineFeeds(t, i + 1)

\* the offset at which each line starts; a document has at least one line
LineStarts(t) == <<0>> \o LineFeeds(t, 1)

\* doc.lineCount
lineCount(t) == Len(LineStarts(t))

\* the offset just after the content of line number line (0-based), its
\* terminator (LF, or CR LF) excluded
LineContentEnd(t, line) ==
  LET starts == LineStarts(t)
  IN IF line + 1 >= Len(starts) THEN Len(t)
     ELSE LET lf == starts[line + 2]
          IN IF lf - 1 > starts[line + 1] /\ t[lf - 1] = CR THEN lf - 2 ELSE lf - 1

\* doc.lineAt(line).text
lineAt(t, line) == SubSeq(t, LineStarts(t)[line + 1] + 1, LineContentEnd(t, line))

\* doc.offsetAt, with the host's validation of the position: a line past the
\* last one is the end of the document, a character past the line's end is
\* the line's end
offsetAt(t, pos) ==
  IF pos.line >= lineCount(t) THEN Len(t)
  ELSE LET st == LineStarts(t)[pos.line + 1]
           len == LineContentEnd(t, pos.line) - st
       IN st + (IF pos.character > len THEN len ELSE pos.character)

\* the number of the line that holds offset
RECURSIVE LineOfOffset(_, _, _)
LineOfOffset(starts, offset, line) ==
  IF line + 1 < Len(starts) /\ starts[line + 2] <= offset
  THEN LineOfOffset(starts, offset, line + 1)
  ELSE line

\* doc.positionAt
positionAt(t, offset) ==
  LET off == IF offset > Len(t) THEN Len(t) ELSE offset
      line == LineOfOffset(LineStarts(t), off, 0)
      st == LineStarts(t)[line + 1]
      len == LineContentEnd(t, line) - st
  IN [line |-> line, character |-> IF off - st > len THEN len ELSE off - st]

Position(line, character) == [line |-> line, character |-> character]

\* a variant of getTextToLine that hands over the whole text
getTextToLine_WholeText(t, toLine) == t

\* doc.getText(new vscode.Range(0, 0, toLine, 0))
getTextToLine(t, toLine) == SubSeq(t, 1, offsetAt(t, Position(toLine, 0)))

(***************************************************************************)
(* insertionPosition                                                       *)
(***************************************************************************)
RECURSIVE SkipBlankLines(_, _)
SkipBlankLines(t, line) ==
  IF line < lineCount(t) /\ Trim(lineAt(t, line)) = <<>>
  THEN SkipBlankLines(t, line + 1)
  ELSE line

insertionPosition(t) ==
  LET line == IF lineCount(t) > 0 /\ StartsWith(lineAt(t, 0), <<"#", "!">>) THEN 1 ELSE 0
  IN Position(SkipBlankLines(t, line), 0)

(***************************************************************************)
(* Workspace paths and configuration                                       *)
(***************************************************************************)
Docs == {"d1", "d2"}
NoEditor == "none"

NoFolder == [present |-> FALSE, name |-> <<>>, path |-> <<>>]

\* the label used when relpath.label is unset or blank
DefaultLabel == <<"P", "a", "t", "h">>

\* vscode.workspace.getWorkspaceFolder(doc.uri): the folder that holds the file
getWorkspaceFolder(d) ==
  IF env.folder.present /\ StartsWith(env.fileName[d], env.folder.path \o <<"/">>)
  THEN env.folder
  ELSE NoFolder

\* vscode.workspace.asRelativePath(doc.uri, false): the path below the folder,
\* never prefixed by the folder's name; the path itself outside every folder
asRelativePath(d) ==
  LET ws == getWorkspaceFolder(d)
  IN IF ws.present
     THEN SubSeq(env.fileName[d], Len(ws.path) + 2, Len(env.fileName[d]))
     ELSE env.fileName[d]

\* a variant of includeWsName that does not read the option
includeWsName_Always == TRUE

\* cfg.get<boolean>('relpath.includeWorkspaceFolder', true)
includeWsName == env.includeWorkspaceFolder # "false"

\* a variant of getRelPathOrAbs that asks whether the workspace has a folder,
\* not whether a folder holds the file
getRelPathOrAbs_AnyFolder(d) ==
  LET rel == asRelativePath(d)
  IN IF ~env.folder.present THEN env.fileName[d]
     ELSE IF includeWsName THEN env.folder.name \o <<"/">> \o rel
     ELSE rel

getRelPathOrAbs(d) ==
  LET ws == getWorkspaceFolder(d)
      rel == asRelativePath(d)
  IN IF ~ws.present THEN env.fileName[d]
     ELSE IF includeWsName THEN ws.name \o <<"/">> \o rel
     ELSE rel

\* the value the relpath.insert command returns for document d
returnRel(d) ==
  LET rel == asRelativePath(d)
      ws == getWorkspaceFolder(d)
  IN IF ws.present THEN rel ELSE env.fileName[d]

\* a variant of headerLabel without the fallback after trimming
headerLabel_NoFallback ==
  LET configured == IF Truthy(env.label) THEN env.label ELSE DefaultLabel
  IN Trim(configured)

\* (get<string>('relpath.label') || 'Path').trim() || 'Path'
headerLabel ==
  LET configured == IF Truthy(env.label) THEN env.label ELSE DefaultLabel
  IN IF Trim(configured) # <<>> THEN Trim(configured) ELSE DefaultLabel

(***************************************************************************)
(* ensureHeader: the decision and the edit it hands to editor.edit         *)
(***************************************************************************)
\* Math.min(10, doc.lineCount)
ScanLines == 10

NoOps == <<>>
Op(from, to, txt) == [from |-> from, to |-> to, txt |-> txt]

DidNotRun == [ran |-> FALSE, threw |-> FALSE, issued |-> "nothing", ops |-> NoOps]
Threw == [ran |-> TRUE, threw |-> TRUE, issued |-> "nothing", ops |-> NoOps]

\* a variant of editCallback that rewrites the header also when its path is
\* the current one
editCallback_AlwaysReplace(t, match, rel, txt) ==
  IF match.matched
  THEN [ran |-> TRUE, threw |-> FALSE, issued |-> "replace",
        ops |-> <<Op(Position(0, 0), positionAt(t, Len(match.m0)), txt)>>]
  ELSE [ran |-> TRUE, threw |-> FALSE, issued |-> "insert",
        ops |-> <<Op(insertionPosition(t), insertionPosition(t), txt)>>]

\* the body of the callback given to editor.edit
editCallback(t, match, rel, txt) ==
  IF match.matched
  THEN LET start == Position(0, 0)
           end == positionAt(t, Len(match.m0))
           current == Trim(match.m1)
       IN IF current # rel
          THEN [ran |-> TRUE, threw |-> FALSE, issued |-> "replace",
                ops |-> <<Op(start, end, txt)>>]
          ELSE [ran |-> TRUE, threw |-> FALSE, issued |-> "none", ops |-> NoOps]
  ELSE LET at == insertionPosition(t)
       IN [ran |-> TRUE, threw |-> FALSE, issued |-> "insert",
           ops |-> <<Op(at, at, txt)>>]

\* ensureHeader(doc) after its guard, for document d with text t: the label,
\* the tokens, the path, the header text, the pattern, the scan of the first
\* lines and the call of editor.edit
headerEdit(d, t) ==
  LET label == headerLabel
      tokens == getCommentTokens(env.languageId[d])
      rel == getRelPathOrAbs(d)
  IN \* reEscape calls lit.replace: a TypeError when start is no string
     IF ~IsString(tokens.start) THEN Threw
     ELSE LET txt == headerText(tokens, label, rel, env.eol[d])
              re == headerRegex(tokens, label)
          IN \* new RegExp throws on a malformed pattern
             IF re = SyntaxError THEN Threw
             ELSE LET toLine == IF lineCount(t) < ScanLines THEN lineCount(t)
                                ELSE ScanLines
                      firstChunk == getTextToLine(t, toLine)
                      match == exec(re, firstChunk)
                  IN editCallback(t, match, rel, txt)

\* a variant of ensureHeader that does not compare doc with the active document
ensureHeader_AnyDocument(editor, d) ==
  IF editor = NoEditor THEN DidNotRun
  ELSE headerEdit(d, text[d])

\* ensureHeader(doc); editor is vscode.window.activeTextEditor at the call
ensureHeader(editor, d) ==
  IF editor = NoEditor \/ editor # d THEN DidNotRun
  ELSE headerEdit(d, text[d])

(***************************************************************************)
(* The host's side of editor.edit                                          *)
(***************************************************************************)
Splice(t, from, to, txt) == SubSeq(t, 1, from) \o txt \o SubSeq(t, to + 1, Len(t))

\* the index of the operation that starts last in the text (of equals, the
\* later one), so that applying it leaves the offsets of the others valid
LastStartingOp(t, ops) ==
  CHOOSE i \in 1..Len(ops) :
    \A j \in 1..Len(ops) :
      \/ offsetAt(t, ops[j].from) < offsetAt(t, ops[i].from)
      \/ (offsetAt(t, ops[j].from) = offsetAt(t, ops[i].from) /\ j <= i)

RemoveAt(seq, i) == SubSeq(seq, 1, i - 1) \o SubSeq(seq, i + 1, Len(seq))

\* all operations of one edit, each range validated against the text the
\* edit was built for
RECURSIVE ApplyOps(_, _, _)
ApplyOps(orig, ops, t) ==
  IF ops = <<>> THEN t
  ELSE LET i == LastStartingOp(orig, ops)
       IN ApplyOps(orig, RemoveAt(ops, i),
                   Splice(t, offsetAt(orig, ops[i].from), offsetAt(orig, ops[i].to),
                          ops[i].txt))

(***************************************************************************)
(* Bounds and initial states                                               *)
(***************************************************************************)
\* lines of an initial document
MaxInitLines == 2
\* edits handed to the host, applied or not yet, over all documents
MaxEdits == 2

Folder == [present |-> TRUE, name |-> <<"w">>, path |-> <<"/", "r">>]

\* d1 lies in the workspace folder (when there is one), d2 outside it
FileNames == [d1 |-> <<"/", "r", "/", "a">>, d2 |-> <<"/", "q">>]

\* the path of an older header: the file has been moved since
OldPath == <<"b">>

\* one file type for every comment delimiter of the two mappings, and the default
DocKinds ==
  {[languageId |-> "python", eol |-> "LF"],
   [languageId |-> "typescript", eol |-> "CRLF"],
   [languageId |-> "ini", eol |-> "LF"],
   [languageId |-> "sql", eol |-> "LF"],
   [languageId |-> "latex", eol |-> "LF"],
   [languageId |-> "html", eol |-> "CRLF"],
   [languageId |-> "css", eol |-> "LF"],
   [languageId |-> "ocaml", eol |-> "LF"],
   [languageId |-> "pascal", eol |-> "CRLF"],
   [languageId |-> "handlebars", eol |-> "LF"],
   [languageId |-> "twig", eol |-> "LF"],
   [languageId |-> "unknown-lang-xyz", eol |-> "LF"]}

Configs ==
  {[folder |-> Folder, includeWorkspaceFolder |-> "unset", label |-> Undefined,
    autoInsertOnOpen |-> TRUE],
   [folder |-> NoFolder, includeWorkspaceFolder |-> "true", label |-> <<" ">>,
    autoInsertOnOpen |-> TRUE],
   [folder |-> Folder, includeWorkspaceFolder |-> "false",
    label |-> <<" ", "L", ".", " ">>, autoInsertOnOpen |-> FALSE],
   [folder |-> Folder, includeWorkspaceFolder |-> "true", label |-> <<>>,
    autoInsertOnOpen |-> TRUE]}

\* the environment of document kind k under configuration c; d2 is a
\* stylesheet outside the workspace folder
Env(k, c) ==
  [languageId |-> [d1 |-> k.languageId, d2 |-> "css"],
   eol |-> [d1 |-> k.eol, d2 |-> "LF"],
   fileName |-> FileNames,
   folder |-> c.folder,
   includeWorkspaceFolder |-> c.includeWorkspaceFolder,
   label |-> c.label,
   autoInsertOnOpen |-> c.autoInsertOnOpen]

Envs == {Env(k, c) : k \in DocKinds, c \in Configs}

\* a header line for path, as headerText renders it, without its terminator
HeaderLine(d, path) ==
  LET txt == headerText(getCommentTokens(env.languageId[d]), headerLabel, path, "LF")
  IN SubSeq(txt, 1, Len(txt) - 1)

\* a header line whose path part is missing
EmptyPathHeaderLine(d) ==
  LET tokens == getCommentTokens(env.languageId[d])
  IN tokens.start \o headerLabel \o <<":">>
     \o (IF tokens.kind = "block" THEN tokens.end ELSE <<>>)

InitLines(d) ==
  {<<>>, <<" ">>, <<"#", "!", "s">>, <<"x">>, HeaderLine(d, OldPath),
   EmptyPathHeaderLine(d)}

RECURSIVE Join(_, _)
Join(ls, nl) ==
  IF Len(ls) = 1 THEN ls[1] ELSE ls[1] \o nl \o Join(Tail(ls), nl)

\* n empty lines
BlankLines(n) == [i \in 1..n |-> <<>>]

\* longer documents: blank lines before and code after an older header, a
\* blank line between a shebang and the code, and an older header on the
\* last line that is scanned and on the first one that is not
LongerDocuments(d) ==
  {<<<<>>, <<" ">>, HeaderLine(d, OldPath), <<"x">>, <<>>>>,
   <<<<"#", "!", "s">>, <<>>, <<"x">>>>,
   BlankLines(ScanLines - 1) \o <<HeaderLine(d, OldPath), <<"x">>>>,
   BlankLines(ScanLines) \o <<HeaderLine(d, OldPath), <<"x">>>>}

InitTexts(d) ==
  {Join(ls, NewLine(env.eol[d])) :
     ls \in UNION {[1..n -> InitLines(d)] : n \in 1..MaxInitLines}
            \cup LongerDocuments(d)}

NotResolved == [kind |-> "none"]

NoOp ==
  [name |-> "activate", doc |-> NoEditor, ran |-> FALSE, threw |-> FALSE,
   issued |-> "nothing", out |-> Undefined, applied |-> FALSE, before |-> <<>>]

\* the documents the event-driven specification starts from: code only, a
\* shebang script, a file with the header of its older path, an empty file
Fixtures(d) ==
  {Join(ls, NewLine(env.eol[d])) :
     ls \in {<<<<"x">>>>, <<<<"#", "!", "s">>, <<"x">>>>,
             <<HeaderLine(d, OldPath), <<"x">>>>, <<<<>>>>}}

\* one document kind per configuration
EventEnvs ==
  {e \in Envs :
     \/ e.languageId["d1"] = "python" /\ e.label = Undefined
     \/ e.languageId["d1"] = "html" /\ e.label = <<" ">>
     \/ e.languageId["d1"] = "python" /\ ~e.autoInsertOnOpen
     \/ e.languageId["d1"] = "typescript" /\ e.label = <<>>}

Init ==
  /\ env \in EventEnvs
  /\ text \in {[d1 |-> t, d2 |-> <<"x">>] : t \in Fixtures("d1")}
  /\ version = [d \in Docs |-> 0]
  /\ changedBy = [d \in Docs |-> {}]
  /\ activeEditor \in {NoEditor, "d1"}
  /\ pending = <<>>
  /\ lastOp = NoOp
  /\ resolved = [id |-> "", tokens |-> NotResolved]

(***************************************************************************)
(* Handlers                                                                *)
(***************************************************************************)
\* the model's bound: another edit may be handed to the host
EditsLeft == version["d1"] + version["d2"] + Len(pending) < MaxEdits

\* a handler that ends in ensureHeader(d), whose outcome is r
Synchronize(name, d, r) ==
  /\ r.ran => EditsLeft
  /\ pending' = IF r.ran /\ ~r.threw
                THEN Append(pending, [doc |-> d, version |-> version[d],
                                      ops |-> r.ops, by |-> "ensureHeader"])
                ELSE pending
  /\ lastOp' = [NoOp EXCEPT !.name = name, !.doc = d, !.ran = r.ran,
                            !.threw = r.threw, !.issued = r.issued]
  /\ UNCHANGED <<text, version, changedBy, env, resolved>>

\* relpath.insertHeader
CmdInsertHeader ==
  /\ IF activeEditor = NoEditor
     THEN Synchronize("relpath.insertHeader", NoEditor, DidNotRun)
     ELSE Synchronize("relpath.insertHeader", activeEditor,
                      ensureHeader(activeEditor, activeEditor))
  /\ UNCHANGED activeEditor

\* the host changes the active editor and fires onDidChangeActiveTextEditor;
\* the handler is registered only with relpath.autoInsertOnOpen
OnDidChangeActiveTextEditor(ed) ==
  /\ ed # activeEditor
  /\ activeEditor' = ed
  /\ IF env.autoInsertOnOpen /\ ed # NoEditor
     THEN Synchronize("onDidChangeActiveTextEditor", ed, ensureHeader(ed, ed))
     ELSE Synchronize("onDidChangeActiveTextEditor", ed, DidNotRun)

\* the host saves document d and fires onDidSaveTextDocument
OnDidSaveTextDocument(d) ==
  /\ IF env.autoInsertOnOpen
     THEN Synchronize("onDidSaveTextDocument", d, ensureHeader(activeEditor, d))
     ELSE Synchronize("onDidSaveTextDocument", d, DidNotRun)
  /\ UNCHANGED activeEditor

\* editor.selections: a cursor at the start of the document and one at its end
Selections(t) == {<<Position(0, 0), positionAt(t, Len(t))>>}

\* relpath.insertAtCursor
CmdInsertAtCursor(sels) ==
  /\ IF activeEditor = NoEditor
     THEN /\ pending' = pending
          /\ lastOp' = [NoOp EXCEPT !.name = "relpath.insertAtCursor"]
     ELSE LET d == activeEditor
              txt == getRelPathOrAbs(d)
          IN /\ EditsLeft
             /\ pending' = Append(pending,
                  [doc |-> d, version |-> version[d],
                   ops |-> [i \in 1..Len(sels) |-> Op(sels[i], sels[i], txt)],
                   by |-> "insertAtCursor"])
             /\ lastOp' = [NoOp EXCEPT !.name = "relpath.insertAtCursor", !.doc = d,
                                       !.ran = TRUE, !.issued = "cursor", !.out = txt]
  /\ UNCHANGED <<text, version, changedBy, activeEditor, env, resolved>>

\* relpath.copyRelativePath: out is what is written to the clipboard
CmdCopyRelativePath ==
  /\ lastOp' = IF activeEditor = NoEditor
               THEN [NoOp EXCEPT !.name = "relpath.copyRelativePath"]
               ELSE [NoOp EXCEPT !.name = "relpath.copyRelativePath",
                                 !.doc = activeEditor, !.ran = TRUE,
                                 !.out = getRelPathOrAbs(activeEditor)]
  /\ UNCHANGED <<text, version, changedBy, activeEditor, pending, env, resolved>>

\* relpath.insert: out is the value the command returns
CmdInsert ==
  /\ lastOp' = IF activeEditor = NoEditor
               THEN [NoOp EXCEPT !.name = "relpath.insert", !.out = <<>>]
               ELSE [NoOp EXCEPT !.name = "relpath.insert", !.doc = activeEditor,
                                 !.ran = TRUE, !.out = returnRel(activeEditor)]
  /\ UNCHANGED <<text, version, changedBy, activeEditor, pending, env, resolved>>

\* The host applies the oldest edit handed to editor.edit, as one atomic
\* change, unless the document has changed since the edit was built (the
\* edit is then dropped and editor.edit resolves to false).
ApplyEdit ==
  /\ pending # <<>>
  /\ LET p == Head(pending)
         fresh == p.version = version[p.doc]
         changes == fresh /\ p.ops # NoOps
     IN /\ text' = IF changes
                   THEN [text EXCEPT ![p.doc] = ApplyOps(text[p.doc], p.ops, text[p.doc])]
                   ELSE text
        /\ version' = IF changes THEN [version EXCEPT ![p.doc] = @ + 1] ELSE version
        /\ changedBy' = IF changes THEN [changedBy EXCEPT ![p.doc] = @ \cup {p.by}]
                        ELSE changedBy
        /\ lastOp' = [NoOp EXCEPT !.name = "applyEdit", !.doc = p.doc, !.ran = TRUE,
                                  !.issued = p.by, !.applied = fresh,
                                  !.before = text[p.doc]]
  /\ pending' = Tail(pending)
  /\ UNCHANGED <<activeEditor, env, resolved>>

Next ==
  \/ CmdInsertHeader
  \/ \E ed \in Docs \cup {NoEditor} : OnDidChangeActiveTextEditor(ed)
  \/ \E d \in Docs : OnDidSaveTextDocument(d)
  \/ \E d \in Docs : \E sels \in Selections(text[d]) :
       d = activeEditor /\ CmdInsertAtCursor(sels)
  \/ activeEditor = NoEditor /\ CmdInsertAtCursor(<<>>)
  \/ CmdCopyRelativePath
  \/ CmdInsert
  \/ ApplyEdit

Spec == Init /\ [][Next]_vars

(***************************************************************************)
(* Sequential synchronizations: the relpath.insertHeader command run to    *)
(* completion (await ensureHeader, which awaits editor.edit) on documents   *)
(* of up to MaxInitLines lines                                             *)
(***************************************************************************)
InitSync ==
  /\ env \in Envs
  /\ text \in {[d1 |-> t, d2 |-> <<"x">>] : t \in InitTexts("d1")}
  /\ version = [d \in Docs |-> 0]
  /\ changedBy = [d \in Docs |-> {}]
  /\ activeEditor = "d1"
  /\ pending = <<>>
  /\ lastOp = NoOp
  /\ resolved = [id |-> "", tokens |-> NotResolved]

InsertHeaderAwaited ==
  /\ activeEditor # NoEditor
  /\ version[activeEditor] < MaxEdits
  /\ LET d == activeEditor
         r == ensureHeader(activeEditor, d)
         changes == r.ops # NoOps
     IN /\ text' = IF changes
                   THEN [text EXCEPT ![d] = ApplyOps(text[d], r.ops, text[d])]
                   ELSE text
        /\ version' = IF changes THEN [version EXCEPT ![d] = @ + 1] ELSE version
        /\ changedBy' = IF changes THEN [changedBy EXCEPT ![d] = @ \cup {"ensureHeader"}]
                        ELSE changedBy
        /\ lastOp' = [NoOp EXCEPT !.name = "relpath.insertHeader", !.doc = d,
                                  !.ran = r.ran, !.threw = r.threw,
                                  !.issued = r.issued, !.applied = ~r.threw,
                                  !.before = text[d]]
  /\ UNCHANGED <<activeEditor, pending, env, resolved>>

NextSync == InsertHeaderAwaited

SpecSync == InitSync /\ [][NextSync]_vars

(***************************************************************************)
(* The resolver alone, over file-type identifiers                          *)
(***************************************************************************)
Identifiers ==
  DOMAIN lineMap \cup DOMAIN blockMap \cup ObjectPrototypeKeys
  \cup {"unknown-lang-xyz", "", "plaintext"}

InitResolver ==
  /\ env = Env([languageId |-> "python", eol |-> "LF"],
               [folder |-> NoFolder, includeWorkspaceFolder |-> "unset",
                label |-> Undefined, autoInsertOnOpen |-> FALSE])
  /\ text = [d \in Docs |-> <<>>]
  /\ version = [d \in Docs |-> 0]
  /\ changedBy = [d \in Docs |-> {}]
  /\ activeEditor = NoEditor
  /\ pending = <<>>
  /\ lastOp = NoOp
  /\ resolved \in {[id |-> i, tokens |-> NotResolved] : i \in Identifiers}

Resolve ==
  /\ resolved.tokens = NotResolved
  /\ resolved' = [resolved EXCEPT !.tokens = getCommentTokens(resolved.id)]
  /\ UNCHANGED <<text, version, changedBy, activeEditor, pending, lastOp, env>>

NextResolver == Resolve

SpecResolver == InitResolver /\ [][NextResolver]_vars

(***************************************************************************)
(* What the documents are expected to hold, spelled out from the tables    *)
(***************************************************************************)
\* the comment delimiters of d's file type, read off the two mappings
Delimiters(d) ==
  LET id == env.languageId[d]
  IN IF id \in DOMAIN lineMap THEN [start |-> lineMap[id], end |-> <<>>]
     ELSE IF id \in DOMAIN blockMap THEN blockMap[id]
     ELSE [start |-> SlashSlash, end |-> <<>>]

\* the label under each configuration of Configs
ExpectedLabel ==
  IF env.label = <<" ", "L", ".", " ">> THEN <<"L", ".">> ELSE <<"P", "a", "t", "h">>

\* d lies below the workspace folder
BelowFolder(d) ==
  env.folder.present /\ StartsWith(env.fileName[d], env.folder.path \o <<"/">>)

\* the path of d1 under each configuration of Configs
ExpectedPath ==
  IF ~env.folder.present THEN <<"/", "r", "/", "a">>
  ELSE IF env.includeWorkspaceFolder = "false" THEN <<"a">>
  ELSE <<"w", "/", "a">>

\* the header line of d for a path, without and with its line terminator
ExpectedLine(d, path) ==
  Delimiters(d).start \o ExpectedLabel \o <<":", " ">> \o path \o Delimiters(d).end

ExpectedHeader ==
  ExpectedLine("d1", ExpectedPath)
  \o (IF env.eol["d1"] = "CRLF" THEN <<CR, LF>> ELSE <<LF>>)

LinesOf(t) == [i \in 1..lineCount(t) |-> lineAt(t, i - 1)]

\* the lines of t that are the current header of d1, indented or not
HeaderLines(t) ==
  {i \in 1..lineCount(t) : TrimStart(LinesOf(t)[i]) = ExpectedLine("d1", ExpectedPath)}

\* line looks like a header of d1: indentation, the prefix, the label, a colon
HeaderLike(line) ==
  StartsWith(TrimStart(line), Delimiters("d1").start \o ExpectedLabel \o <<":">>)

NoHeaderLike(t) == \A i \in 1..lineCount(t) : ~HeaderLike(LinesOf(t)[i])

IsBlank(line) == \A i \in 1..Len(line) : line[i] \in WhiteSpace

IsShebang(line) == StartsWith(line, <<"#", "!">>)

\* the number of blank lines t starts with
LeadingBlankLines(t) ==
  LET ls == LinesOf(t)
      nonBlank == {i \in 1..Len(ls) : ~IsBlank(ls[i])}
  IN IF nonBlank = {} THEN Len(ls)
     ELSE (CHOOSE i \in nonBlank : \A j \in nonBlank : i <= j) - 1

(***************************************************************************)
(* Statements about one synchronization run to completion (SpecSync)       *)
(***************************************************************************)
\* the last step was a synchronization of d1 that ran to completion
Synced == lastOp.name = "relpath.insertHeader" /\ lastOp.ran /\ ~lastOp.threw

\* the text of d1 before and after that synchronization
Before == lastOp.before
After == text["d1"]

\* how many synchronizations had changed d1 before that one
PriorSyncs == version["d1"] - (IF lastOp.issued \in {"insert", "replace"} THEN 1 ELSE 0)

\* C1: after one synchronization has been applied, a second one with the same
\* path decides NoOp: it issues neither an insert nor a replace, the text is
\* unchanged and the document holds exactly one header line.
C1_SecondRunIsNoOp ==
  (Synced /\ PriorSyncs >= 1)
    => /\ lastOp.issued = "none"
       /\ After = Before
       /\ Cardinality(HeaderLines(After)) = 1

\* where a header sits that a synchronization put there: on the first line
\* that is not blank, or on the line below the shebang
HeaderLineIndex(t) ==
  IF IsShebang(LinesOf(t)[1]) THEN 2 ELSE LeadingBlankLines(t) + 1

HasHeaderFor(t, path) ==
  /\ HeaderLineIndex(t) <= lineCount(t)
  /\ LinesOf(t)[HeaderLineIndex(t)] = ExpectedLine("d1", path)

\* the text of t above line h, and the text below line h and its terminator
TextAbove(t, h) == SubSeq(t, 1, LineStarts(t)[h])
TextBelow(t, h) ==
  IF h < lineCount(t) THEN SubSeq(t, LineStarts(t)[h + 1] + 1, Len(t)) ELSE <<>>

\* C2: with a header for another path P1 in place, synchronizing replaces
\* only that header line by the header rendered for the current path; the
\* content after the header line (and the content above it) is preserved.
C2_ReplacesOnlyHeaderLine ==
  (Synced /\ HasHeaderFor(Before, OldPath))
    => LET h == HeaderLineIndex(Before)
       IN /\ lastOp.issued = "replace"
          /\ After = TextAbove(Before, h) \o ExpectedHeader \o TextBelow(Before, h)

\* C3: a document whose first line is a shebang and that holds no header gets
\* the header inserted at line index 1: line 0 is still the shebang line,
\* unchanged, and line 1 is the header, on a line of its own.
C3_HeaderBelowShebang ==
  (Synced /\ PriorSyncs = 0 /\ IsShebang(Before) /\ NoHeaderLike(Before))
    => /\ lastOp.issued = "insert"
       /\ lineCount(After) >= 2
       /\ LinesOf(After)[1] = LinesOf(Before)[1]
       /\ LinesOf(After)[2] = ExpectedLine("d1", ExpectedPath)

\* C4: a document with k >= 1 leading blank lines and no header gets the
\* header inserted as line k: the k blank lines stay above it, the rest of
\* the file stays below it.
C4_HeaderBelowBlankLines ==
  (/\ Synced /\ PriorSyncs = 0
   /\ LeadingBlankLines(Before) >= 1
   /\ NoHeaderLike(Before))
    => LET k == LeadingBlankLines(Before)
           ls == LinesOf(Before)
       IN /\ lastOp.issued = "insert"
          /\ LinesOf(After) =
               SubSeq(ls, 1, k) \o <<ExpectedLine("d1", ExpectedPath)>>
               \o (IF k < Len(ls) THEN SubSeq(ls, k + 1, Len(ls)) ELSE <<<<>>>>)

\* C5: a document with an inserted header for path P is matched by the
\* pattern built for the same style and label, and the captured path,
\* trimmed, is P.
C5_InsertedHeaderIsDetected ==
  (Synced /\ lastOp.issued = "insert")
    => LET tokens == getCommentTokens(env.languageId["d1"])
           m == exec(headerRegex(tokens, ExpectedLabel), After)
       IN m.matched /\ Trim(m.m1) = ExpectedPath

\* d1 starts with a line of code: no blank line, no shebang, no header
PlainStart(t) ==
  LET first == LinesOf(t)[1]
  IN ~IsBlank(first) /\ ~IsShebang(first) /\ ~HeaderLike(first)

\* C10: a document with no header, no shebang and no leading blank line gets
\* prefix + label + ": " + path + suffix + its own line terminator inserted
\* at line 0, column 0, and the original text follows unchanged.
C10_PlainInsertion ==
  (Synced /\ PlainStart(Before))
    => /\ lastOp.issued = "insert"
       /\ After = ExpectedHeader \o Before

\* the python scenario: label Path, line feeds, the header "# Path: w/a"
C10_Witness ==
  /\ Synced /\ PlainStart(Before) /\ lastOp.issued = "insert"
  /\ env.languageId["d1"] = "python" /\ env.label = Undefined /\ env.folder.present
  /\ env.includeWorkspaceFolder = "unset"
  /\ After = <<"#", " ", "P", "a", "t", "h", ":", " ", "w", "/", "a", LF>> \o Before

(***************************************************************************)
(* Statements about the resolver (SpecResolver)                            *)
(***************************************************************************)
\* C6: the resolver gives the line style of the line mapping, else the block
\* style of the block mapping, else the default line style with prefix "// ",
\* also for names of built-in object properties; the prefix is always a
\* non-empty string.
C6_ResolverIsTotal ==
  resolved.tokens # NotResolved
    => LET id == resolved.id
           tokens == resolved.tokens
       IN /\ IsString(tokens.start) /\ tokens.start # <<>>
          /\ tokens =
               IF id \in DOMAIN lineMap THEN [kind |-> "line", start |-> lineMap[id]]
               ELSE IF id \in DOMAIN blockMap
                 THEN [kind |-> "block", start |-> blockMap[id].start,
                       end |-> blockMap[id].end]
               ELSE [kind |-> "line", start |-> <<"/", "/", " ">>]

(***************************************************************************)
(* Statements about the commands and events (Spec)                         *)
(***************************************************************************)
\* C7: whatever the order in which triggers read d1 and the host applies
\* their edits, d1 ends with exactly one header line and is what a single
\* trigger makes of it: only one of the edits changes the document.
C7_InterleavedTriggersLeaveOneHeader ==
  changedBy["d1"] = {"ensureHeader"}
    => /\ version["d1"] = 1
       /\ Cardinality(HeaderLines(text["d1"])) = 1

\* the step called an entry point that found no active document
NoActiveDocument ==
  \/ /\ lastOp'.name \in {"relpath.insertHeader", "relpath.insertAtCursor",
                          "relpath.copyRelativePath"}
     /\ activeEditor = NoEditor
  \/ /\ lastOp'.name = "onDidChangeActiveTextEditor"
     /\ activeEditor' = NoEditor
  \/ /\ lastOp'.name = "onDidSaveTextDocument"
     /\ (activeEditor = NoEditor \/ lastOp'.doc # activeEditor)

\* C8: an entry point that finds no active editor, or is handed a document
\* that is not the active editor's, issues no edit, leaves every text
\* unchanged, raises no error and writes nothing.
C8_NoActiveDocumentIsNoOp ==
  [][NoActiveDocument
       => /\ pending' = pending
          /\ text' = text /\ version' = version
          /\ ~lastOp'.ran /\ ~lastOp'.threw
          /\ lastOp'.issued = "nothing" /\ lastOp'.out = Undefined]_vars

\* a save of d2 while d1 is the active document, with the handlers registered
C8_Witness ==
  /\ lastOp.name = "onDidSaveTextDocument" /\ lastOp.doc = "d2"
  /\ activeEditor = "d1" /\ env.autoInsertOnOpen
  /\ ~lastOp.ran /\ pending = <<>>

\* the header line that the last applied synchronization wrote into its document
WroteHeader(d, path) ==
  \E i \in 1..lineCount(text[d]) :
    TrimStart(LinesOf(text[d])[i]) = ExpectedLine(d, path)

\* C9: for a file below no workspace folder, relpath.insert returns, and
\* insertAtCursor, copyRelativePath and the header write, the absolute file
\* path; for a file below the folder relpath.insert returns the path
\* relative to the folder.
C9_AbsolutePathFallback ==
  /\ (lastOp.ran /\ lastOp.name \in {"relpath.insert", "relpath.insertAtCursor",
                                     "relpath.copyRelativePath"})
       => IF BelowFolder(lastOp.doc)
          THEN lastOp.name = "relpath.insert"
                 => env.folder.path \o <<"/">> \o lastOp.out = env.fileName[lastOp.doc]
          ELSE lastOp.out = env.fileName[lastOp.doc]
  /\ (/\ lastOp.name = "applyEdit" /\ lastOp.issued = "ensureHeader"
      /\ lastOp.applied /\ ~BelowFolder(lastOp.doc))
       => WroteHeader(lastOp.doc, env.fileName[lastOp.doc])

\* d2 lies outside the folder that holds d1, and its header was written
C9_Witness ==
  /\ env.folder.present /\ BelowFolder("d1") /\ ~BelowFolder("d2")
  /\ lastOp.name = "applyEdit" /\ lastOp.issued = "ensureHeader"
  /\ lastOp.applied /\ lastOp.doc = "d2"
  /\ WroteHeader("d2", <<"/", "q">>)

(***************************************************************************)
(* Statements about the label, the path option and the decision            *)
(***************************************************************************)
\* l is s without the white space at its two ends, and is not empty
IsTrimOf(l, s) ==
  \E i \in 1..Len(s) : \E j \in i..Len(s) :
    /\ l = SubSeq(s, i, j)
    /\ s[i] \notin WhiteSpace /\ s[j] \notin WhiteSpace
    /\ \A k \in 1..Len(s) : (k < i \/ k > j) => s[k] \in WhiteSpace

\* the configured label has a character that is no white space
LabelConfigured ==
  env.label # Undefined /\ \E k \in 1..Len(env.label) : env.label[k] \notin WhiteSpace

\* d1 starts with the current header, written with label l
StartsWithHeader(t, l) ==
  StartsWith(t, Delimiters("d1").start \o l \o <<":", " ">> \o ExpectedPath
                \o Delimiters("d1").end \o NewLine(env.eol["d1"]))

\* C11: the label is the trimmed configured value when that is not empty and
\* "Path" otherwise, it is never empty, and it is the label both of the
\* rendered header and of the pattern that finds the header again.
C11_LabelNeverEmpty ==
  /\ headerLabel # <<>>
  /\ IF LabelConfigured THEN IsTrimOf(headerLabel, env.label)
     ELSE headerLabel = <<"P", "a", "t", "h">>
  /\ (Synced /\ PlainStart(Before)) => StartsWithHeader(After, headerLabel)
  /\ (Synced /\ StartsWithHeader(Before, headerLabel)) => lastOp.issued = "none"

\* a label of white space only: the header is written and found with "Path"
C11_Witness ==
  /\ env.label = <<" ">>
  /\ Synced /\ PriorSyncs = 1 /\ lastOp.issued = "none"
  /\ StartsWith(After, Delimiters("d1").start \o <<"P", "a", "t", "h", ":", " ">>)

\* the path of each document under each configuration of Configs: d1 lies
\* below the folder when there is one, d2 never does
PathOf(d) == IF d = "d1" THEN ExpectedPath ELSE <<"/", "q">>

\* C12: for a file below the workspace folder, insertAtCursor, copyRelativePath
\* and the header use the folder's name, "/" and the path relative to the
\* folder when includeWorkspaceFolder is true (its default), and the relative
\* path alone when it is false; for a file below no folder they use the
\* absolute path whatever the option.
C12_IncludeWorkspaceFolder ==
  /\ (lastOp.ran /\ lastOp.name \in {"relpath.insertAtCursor", "relpath.copyRelativePath"})
       => lastOp.out = PathOf(lastOp.doc)
  /\ (lastOp.name = "applyEdit" /\ lastOp.applied)
       => IF lastOp.issued = "ensureHeader"
          THEN WroteHeader(lastOp.doc, PathOf(lastOp.doc))
          ELSE StartsWith(text[lastOp.doc], PathOf(lastOp.doc))

\* the option set to true, a header written into the file below the folder
C12_Witness ==
  /\ env.folder.present /\ env.includeWorkspaceFolder = "true"
  /\ lastOp.name = "applyEdit" /\ lastOp.applied /\ lastOp.issued = "ensureHeader"
  /\ lastOp.doc = "d1" /\ WroteHeader("d1", <<"w", "/", "a">>)

\* the first min(10, lineCount) lines of t, terminators included
ScannedChunk(t) ==
  IF lineCount(t) <= 10 THEN t ELSE SubSeq(t, 1, LineStarts(t)[11])

\* what the pattern of d1 finds in the scanned chunk of t
Found(t) ==
  exec(headerRegex(getCommentTokens(env.languageId["d1"]), ExpectedLabel),
       ScannedChunk(t))

\* t with txt put in at offset at
InsertedAt(t, at, txt) == SubSeq(t, 1, at) \o txt \o SubSeq(t, at + 1, Len(t))

\* C13: one synchronization issues exactly one insert at insertionPosition
\* when the pattern does not match the scanned chunk, nothing when it matches
\* and the trimmed captured path is the current path, and exactly one replace
\* of the text from the document's start to the end of the match by the
\* rendered header when the captured path differs; never more than one edit.
C13_DecisionTable ==
  Synced =>
    LET m == Found(Before)
    IN /\ lastOp.issued \in {"insert", "none", "replace"}
       /\ version["d1"] = PriorSyncs + (IF lastOp.issued = "none" THEN 0 ELSE 1)
       /\ ~m.matched =>
            /\ lastOp.issued = "insert"
            /\ After = InsertedAt(Before, offsetAt(Before, insertionPosition(Before)),
                                  ExpectedHeader)
       /\ (m.matched /\ Trim(m.m1) = ExpectedPath) =>
            /\ lastOp.issued = "none"
            /\ After = Before
       /\ (m.matched /\ Trim(m.m1) # ExpectedPath) =>
            /\ lastOp.issued = "replace"
            /\ After = ExpectedHeader \o SubSeq(Before, Len(m.m0) + 1, Len(Before))

\* a header written by an earlier run, found by this one and left alone
C13_Witness ==
  /\ Synced /\ PriorSyncs = 1 /\ lastOp.issued = "none"
  /\ Found(Before).matched /\ Trim(Found(Before).m1) = ExpectedPath
  /\ StartsWith(Before, ExpectedHeader) /\ Len(Before) > Len(ExpectedHeader)

\* the line at which a header goes into a document without one: below a
\* shebang on line 0 and below the blank lines that follow
RECURSIVE FirstNonBlankFrom(_, _)
FirstNonBlankFrom(ls, i) ==
  IF i <= Len(ls) /\ IsBlank(ls[i]) THEN FirstNonBlankFrom(ls, i + 1) ELSE i

HeaderPlace(t) ==
  FirstNonBlankFrom(LinesOf(t), IF IsShebang(LinesOf(t)[1]) THEN 2 ELSE 1)

\* t with the current header put in before the line at HeaderPlace(t), or at
\* the end of t when there is no such line
WithHeaderPut(t) ==
  InsertedAt(t, IF HeaderPlace(t) <= lineCount(t) THEN LineStarts(t)[HeaderPlace(t)]
                ELSE Len(t),
             ExpectedHeader)

\* the text of t from line index 10 on
BeyondScan(t) == SubSeq(t, LineStarts(t)[11] + 1, Len(t))

IsSuffix(s, t) == Len(s) <= Len(t) /\ SubSeq(t, Len(t) - Len(s) + 1, Len(t)) = s

\* C14: only the first min(10, lineCount) lines are searched: a document whose
\* header-format lines all lie at line index 10 or later is treated as one
\* without header (the header is inserted, the old line stays), and a
\* replace never touches the text at or beyond line index 10.
C14_BoundedScan ==
  (Synced /\ lineCount(Before) > 10)
    => /\ (\A i \in 1..10 : ~HeaderLike(LinesOf(Before)[i]))
            => /\ lastOp.issued = "insert"
               /\ After = WithHeaderPut(Before)
       /\ lastOp.issued = "replace" => IsSuffix(BeyondScan(Before), After)

\* an older header on line index 10, below ten blank lines, is not found
C14_Witness ==
  /\ Synced /\ lineCount(Before) > 10 /\ PriorSyncs = 0
  /\ LinesOf(Before)[11] = ExpectedLine("d1", OldPath)
  /\ lastOp.issued = "insert"
  /\ After = WithHeaderPut(Before)


\* the text of t from its line number i (1-based) on
FromLine(t, i) == SubSeq(t, LineStarts(t)[i] + 1, Len(t))

\* C15: a match of the search always begins at offset 0, so the replaced
\* range is the matched span; a header-format line below a non-blank line
\* (a shebang, code, another comment) within the first ten lines is never
\* detected or replaced: it and all that follows it stay in the document.
C15_MatchStartsAtDocumentStart ==
  Synced =>
    /\ Found(Before).matched
         => /\ Found(Before).index = 0
            /\ HeaderLike(LinesOf(Before)[LeadingBlankLines(Before) + 1])
            /\ lastOp.issued = "replace"
                 => After = ExpectedHeader
                            \o SubSeq(Before, Len(Found(Before).m0) + 1, Len(Before))
    /\ \A i \in 2..lineCount(Before) :
         (/\ i <= 10
          /\ HeaderLike(LinesOf(Before)[i])
          /\ \E j \in 1..(i - 1) : ~IsBlank(LinesOf(Before)[j]))
           => IsSuffix(FromLine(Before, i), After)

\* C16: a replace takes away only white space and one comment line that
\* starts with the prefix and the label: the first non-blank line of the
\* document is that line, and all text below it stays.
C16_ReplaceTakesOnlyHeaderLine ==
  (Synced /\ lastOp.issued = "replace")
    => LET h == LeadingBlankLines(Before) + 1
       IN /\ h <= lineCount(Before)
          /\ HeaderLike(LinesOf(Before)[h])
          /\ h < lineCount(Before) => IsSuffix(FromLine(Before, h + 1), After)

\* C17: the position an insert uses is column 0 of a line the document has
\* (0 <= line < lineCount), so the header goes in at the start of that line
\* and makes a line of its own.
C17_InsertionPositionIsLineStart ==
  (Synced /\ lastOp.issued = "insert")
    => LET pos == insertionPosition(Before)
       IN /\ 0 <= pos.line /\ pos.line < lineCount(Before)
          /\ pos.character = 0
          /\ After = InsertedAt(Before, LineStarts(Before)[pos.line + 1], ExpectedHeader)
          /\ LinesOf(After)[pos.line + 1] = ExpectedLine("d1", ExpectedPath)

====
